---- MODULE Spec2Model ----
(***************************************************************************)
(* Resumable fetch-and-merge engine of the scrapers                        *)
(*   DATABASES/DLiP/scrape_dlip.py          (pooled dispatch)              *)
(*   DATABASES/IPPIDB/ippidb_scraper.py     (pooled dispatch, same shape)  *)
(*   DATABASES/DLiP/scrape_curated_dlip.py  (sequential per-prefix scan)   *)
(*                                                                         *)
(* One behaviour is one run of one script.  The main thread is a program   *)
(* counter pc; in the pooled script the ThreadPoolExecutor workers run     *)
(* scrape_compound concurrently with it.  A DataFrame is the sequence of   *)
(* its rows, a file is the DataFrame last written to it.                   *)
(*                                                                         *)
(* The pooled behaviours follow scrape_dlip.py line by line.               *)
(* ippidb_scraper.py has the same resume computation, flush_batch, main    *)
(* loop, handler and retry pass; it differs in that its Identifiers are    *)
(* the integers 1..num_compounds, it does not restamp the result, and it   *)
(* has no final save after the retry pass.                                 *)
(*                                                                         *)
(* The initial state is the start of the process with the files an earlier *)
(* run of the same script left: sorted, one row per Identifier, a row      *)
(* being a success with its fields or a failure with its error only.       *)
(*                                                                         *)
(* Three specifications: Spec is a run of either script, with the          *)
(* KeyboardInterrupt, a failing write and a kill of the process as         *)
(* environment steps; PooledSpec is the undisturbed pooled run under weak  *)
(* fairness; EncSpec runs the Identifier formatters on their own, with     *)
(* the tokens as character sequences (Spec keeps the index instead).       *)
(***************************************************************************)
EXTENDS Integers, Sequences, FiniteSets, TLC

\* ---------------------------------------------------------------- bounds
\* Inclusive end index of the enumerated range (int("00BQL", 36) in the
\* source; the curated script has no end, its scan is cut at the same index).
EndIndex == 2
\* Largest number of rows of the pickle found at start-up.
MaxLoaded == 3
\* Number of entries of `prefixes` that are scanned (5 in the source).
NumPrefixes == 2
\* Scaled configuration values (50, 10 and 20 in the source).
CHECKPOINT_EVERY == 2
MAX_WORKERS == 2
MAX_CONSECUTIVE_FAILS == 2
\* Largest index of the low part of the indexes the hexadecimal formatter is
\* run on (the scan of the curated script has no end index).
MaxHexIndex == 300

\* ------------------------------------------------------ program constants
MAX_RETRIES == 3
BACKOFF == 5

Null == "null"
\* args.num_compounds when the flag is not given
None == -1

\* -------------------------------------------------------------- identifiers
\* An Identifier f"{prefix}{digits}" is the pair <<prefix, index>>; the
\* digits are fixed-width, so string order is prefix order, then index order.
Rank(p) ==
  CASE p = "C" -> 1 [] p = "D" -> 2 [] p = "I" -> 3
    [] p = "J" -> 4 [] p = "P" -> 5 [] p = "T" -> 6

IdLess(a, b) == Rank(a[1]) < Rank(b[1]) \/ (a[1] = b[1] /\ a[2] < b[2])

\* prefixes = list(PREFIX_MAP.keys()), cut to the first NumPrefixes entries
prefixes == SubSeq(<<"I", "P", "T", "C", "J">>, 1, NumPrefixes)

Range(s) == {s[k] : k \in DOMAIN s}

\* generate_ids(num): range(start, end + 1), stopped once count >= num
RECURSIVE generate_ids_from(_, _, _)
generate_ids_from(i, count, num) ==
  IF i > EndIndex THEN <<>>
  ELSE IF num # None /\ count >= num THEN <<>>
  ELSE <<(<<"D", i>>)>> \o generate_ids_from(i + 1, count + 1, num)

generate_ids(num) == generate_ids_from(0, 0, num)

\* --------------------------------------------------------------- the tokens
\* A string is the sequence of its characters.
chars ==
  <<"0", "1", "2", "3", "4", "5", "6", "7", "8", "9", "A", "B", "C", "D", "E",
    "F", "G", "H", "I", "J", "K", "L", "M", "N", "O", "P", "Q", "R", "S", "T",
    "U", "V", "W", "X", "Y", "Z">>

\* while n > 0: n, r = divmod(n, base); digits.append(chars[r]); reversed
RECURSIVE DivmodDigits(_, _)
DivmodDigits(n, base) ==
  IF n = 0 THEN <<>>
  ELSE DivmodDigits(n \div base, base) \o <<chars[(n % base) + 1]>>

int_to_base36(n) == IF n = 0 THEN <<"0">> ELSE DivmodDigits(n, 36)

\* str.zfill(width): zeros on the left up to width; a longer string is kept
zfill(s, width) ==
  IF Len(s) >= width THEN s ELSE [k \in 1..(width - Len(s)) |-> "0"] \o s

\* format(n, "05X"): upper-case hexadecimal digits, zero-padded to at least 5
int_to_hex(n) == zfill(IF n = 0 THEN <<"0">> ELSE DivmodDigits(n, 16), 5)

\* f"D{int_to_base36(i).zfill(5)}"
DlipId(n) == <<"D">> \o zfill(int_to_base36(n), 5)

\* f"{prefix}{int_to_hex(i)}"
CuratedId(prefix, n) == <<prefix>> \o int_to_hex(n)

\* int(s, base)
RECURSIVE int(_, _)
int(s, base) ==
  IF s = <<>> THEN 0
  ELSE int(SubSeq(s, 1, Len(s) - 1), base) * base
         + (CHOOSE v \in 0..(base - 1) : chars[v + 1] = s[Len(s)])

\* start and end of generate_ids
start == int(<<"0", "0", "0", "0", "0">>, 36)
end == int(<<"0", "0", "B", "Q", "L">>, 36)

\* ------------------------------------------------------------------ records
\* A row of the DataFrame: the Identifier column, one data column standing for
\* the extracted fields, and the error column.
Row(id, val, error) == [id |-> id, val |-> val, error |-> error]

\* pd.DataFrame(batch_results): one row per dict, a key a dict lacks is NaN
DictToRow(r) ==
  Row(r.id, IF "val" \in DOMAIN r THEN r.val ELSE Null, r.error)

DataFrame(batch) == [k \in DOMAIN batch |-> DictToRow(batch[k])]

Ids(d) == {d[k].id : k \in DOMAIN d}

\* df.sort_values(by=<Identifier column>).reset_index(drop=True)
RECURSIVE InsertRow(_, _)
InsertRow(r, s) ==
  IF s = <<>> THEN <<r>>
  ELSE IF IdLess(r.id, Head(s).id) THEN <<r>> \o s
  ELSE <<Head(s)>> \o InsertRow(r, Tail(s))

RECURSIVE sort_values(_)
sort_values(d) ==
  IF d = <<>> THEN <<>>
  ELSE InsertRow(d[Len(d)], sort_values(SubSeq(d, 1, Len(d) - 1)))

\* Mutant: the rows of the batch are appended, none is replaced
UpsertUnsorted_append(d, new_df) == d \o new_df

\* df[~df[ID].isin(new_df[ID])] followed by new_df
UpsertUnsorted(d, new_df) ==
  SelectSeq(d, LAMBDA r : r.id \notin Ids(new_df)) \o new_df

\* Mutant: the merged DataFrame is written as concatenated
merge_unsorted(d, batch) == UpsertUnsorted(d, DataFrame(batch))

\* flush_batch up to the sort: the new value of df
merge(d, batch) == sort_values(UpsertUnsorted(d, DataFrame(batch)))

\* df[df["error"].isna()][ID]
Successful(d) == {d[k].id : k \in {j \in DOMAIN d : d[j].error = Null}}

\* Mutant: the retry pass takes every Identifier of df
FailedIds_all(d) == [k \in DOMAIN d |-> d[k].id]

\* df[df["error"].notna()][ID].tolist()
FailedIds(d) ==
  LET f == SelectSeq(d, LAMBDA r : r.error # Null)
  IN  [k \in DOMAIN f |-> f[k].id]

\* Mutant: an Identifier with any row, failed or not, is skipped
ToScrape_present(all_cids, d) == SelectSeq(all_cids, LAMBDA c : c \notin Ids(d))

\* to_scrape = [cid for cid in all_cids if cid not in scraped]
ToScrape(all_cids, d) == SelectSeq(all_cids, LAMBDA c : c \notin Successful(d))


\* ------------------------------------------------------------------ fetcher
\* The dict returned on success: every field, error = None
SuccessRecord(cid) == [id |-> cid, val |-> "new", error |-> Null]

\* Mutant: the dict of the failed attempt is returned with the error set
FailureRecord_partial(cid, data, e) == [id |-> cid, val |-> data, error |-> e]

\* The dict returned when the last attempt failed; `data` is what that attempt
\* had extracted before it raised (a local of the try block)
FailureRecord(cid, data, e) == [id |-> cid, error |-> e]

\* Mutant: the same wait after every failed attempt
BackoffWait_constant(attempt) == BACKOFF

\* time.sleep(backoff * attempt)
BackoffWait(attempt) == BACKOFF * attempt

\* One call of scrape_compound in progress.  attempt is the local counter,
\* tries counts the requests sent, sleeps lists the waits in order, ok says
\* that an attempt returned.
NewFetch(cid) ==
  [cid |-> cid, st |-> "pending", attempt |-> 0, tries |-> 0, sleeps |-> <<>>,
   ok |-> FALSE, res |-> <<>>]

Outcomes == {"ok", "http_error", "parse_error"}

\* One iteration of `while attempt < max_retries`
scrape_attempt(f, outcome) ==
  IF outcome = "ok"
  THEN [f EXCEPT !.tries = @ + 1, !.ok = TRUE, !.st = "done",
                 !.res = <<SuccessRecord(f.cid)>>]
  ELSE LET a    == f.attempt + 1
           data == IF outcome = "parse_error" THEN "new" ELSE Null
       IN  IF a < MAX_RETRIES
           THEN [f EXCEPT !.tries = @ + 1, !.attempt = a,
                          !.sleeps = Append(@, BackoffWait(a))]
           ELSE [f EXCEPT !.tries = @ + 1, !.attempt = a, !.st = "done",
                          !.res = <<FailureRecord(f.cid, data, "err")>>]

\* -------------------------------------------------------------------- state
VARIABLES
  policy,            \* "pooled" (scrape_dlip, ippidb_scraper) or "sequential"
  num_compounds,     \* args.num_compounds
  tsv, pkl,          \* the two files: [exists, rows]
  df,                \* the global DataFrame
  batch_results,     \* the global list of result dicts
  pc, ret,           \* main thread: position, and where flush_batch returns to
  phase,             \* "primary" or "retry" pass
  all_cids,          \* the enumerated Identifiers (pooled)
  to_scrape,         \* the list handed to the executor in this pass
  futures,           \* futures[k]: the call submitted for to_scrape[k]
  i,                 \* loop counter
  pidx,              \* position in `prefixes` (sequential)
  consecutive_fails, \* (sequential)
  cur,               \* the call running on the main thread (sequential)
  exit_status,       \* <<>> while the process runs, then <<its exit status>>
  interrupted,       \* a KeyboardInterrupt has been raised in the main thread
  \* history variables
  loaded,            \* df as loaded at start-up
  submitted,         \* [primary, retry]: Identifiers submitted, in order
  started,           \* set of <<phase, cid>>: calls of scrape_compound begun
  lateStarts,        \* calls begun after the interrupt
  inFlightAtInt,     \* Identifiers whose call was running at the interrupt
  batchAtInt,        \* batch_results at the interrupt
  phaseAtInt,        \* the pass the interrupt arrived in
  latest,            \* the last row each call of scrape_compound returned
  flushAtInt,        \* <<df>> when the interrupt cut a flush_batch after its
                     \* merge, <<>> otherwise
  write_failed,      \* to_csv or to_pickle has raised
  pklAtCrash,        \* the pickle before the write a crash cut
  enc                \* the Identifier being formatted (encoder runs only)

vars ==
  <<policy, num_compounds, tsv, pkl, df, batch_results, pc, ret, phase,
    all_cids, to_scrape, futures, i, pidx, consecutive_fails, cur,
    exit_status, interrupted, loaded, submitted, started, lateStarts,
    inFlightAtInt, batchAtInt, phaseAtInt, latest, flushAtInt, write_failed,
    pklAtCrash, enc>>

\* A file: torn says that the write that produced it did not finish
File(rows) == [exists |-> TRUE, rows |-> rows, torn |-> FALSE]
NoFile == [exists |-> FALSE, rows |-> <<>>, torn |-> FALSE]

\* What a write leaves when it stops part-way: the file was opened for
\* writing, so it exists, and it holds a part of the bytes only; no row of it
\* can be relied on
TornFile == [exists |-> TRUE, rows |-> <<>>, torn |-> TRUE]

\* ------------------------------------------------------------ initial state
\* The Identifiers a pickle left by earlier runs of the same script can hold
Universe(pol) ==
  IF pol = "pooled"
  THEN {<<"D", n>> : n \in 0..EndIndex}
  ELSE {<<prefixes[k], n>> : k \in DOMAIN prefixes, n \in 0..EndIndex}

\* A row as an earlier run left it: a success with its fields, or a failure
OldRow(id, kind) ==
  IF kind = "ok" THEN Row(id, "old", Null) ELSE Row(id, Null, "old_err")

RECURSIVE OldRows(_, _)
OldRows(S, kind) ==
  IF S = {} THEN <<>>
  ELSE LET m == CHOOSE a \in S : \A b \in S \ {a} : IdLess(a, b)
       IN  <<OldRow(m, kind[m])>> \o OldRows(S \ {m}, kind)

\* Files written by earlier runs: sorted, one row per Identifier
OldFiles(pol) ==
  {NoFile} \cup
  {File(OldRows(S, kind)) :
     S \in {T \in SUBSET Universe(pol) : Cardinality(T) <= MaxLoaded},
     kind \in [Universe(pol) -> {"ok", "err"}]}

\* The variables of a process that has not run a statement yet
Fresh ==
  /\ df = <<>>
  /\ batch_results = <<>>
  /\ ret = "none"
  /\ phase = "primary"
  /\ all_cids = <<>>
  /\ to_scrape = <<>>
  /\ futures = <<>>
  /\ i = 0
  /\ pidx = 1
  /\ consecutive_fails = 0
  /\ cur = <<>>
  /\ exit_status = <<>>
  /\ interrupted = FALSE
  /\ loaded = <<>>
  /\ submitted = [primary |-> <<>>, retry |-> <<>>]
  /\ started = {}
  /\ lateStarts = {}
  /\ inFlightAtInt = {}
  /\ batchAtInt = <<>>
  /\ phaseAtInt = "none"
  /\ latest = {}
  /\ flushAtInt = <<>>
  /\ write_failed = FALSE
  /\ pklAtCrash = NoFile

Init ==
  /\ policy \in {"pooled", "sequential"}
  /\ num_compounds \in {None} \cup (0..EndIndex)
  /\ pkl \in OldFiles(policy)
  /\ tsv = pkl
  /\ pc = "load"
  /\ enc = <<>>
  /\ Fresh


\* ------------------------------------------------------------ shared pieces
hist == <<loaded, submitted, started, lateStarts, inFlightAtInt, batchAtInt,
          phaseAtInt, latest, flushAtInt>>
config == <<policy, num_compounds>>
aux == <<write_failed, pklAtCrash, enc>>
files == <<tsv, pkl>>
seqvars == <<pidx, consecutive_fails, cur>>
poolvars == <<all_cids, to_scrape, futures>>

\* result["DLiP-ID"] = <the Identifier the call was made for>
Restamp(r, cid) == [r EXCEPT !.id = cid]

\* The row a finished call contributes, replacing the one of an earlier call
Latest(l, r) == {x \in l : x.id # r.id} \cup {DictToRow(r)}

\* if os.path.exists(PKL_FILE): df = pd.read_pickle(PKL_FILE)
\* else: df = pd.DataFrame(columns=FIELDS)
read_pickle(f) == IF f.exists THEN f.rows ELSE <<>>

Load ==
  /\ pc = "load"
  /\ df' = read_pickle(pkl)
  /\ loaded' = df'
  /\ pc' = IF policy = "pooled" THEN "resume" ELSE "prefix"
  /\ UNCHANGED <<config, aux, files, batch_results, ret, phase, poolvars, i,
                 seqvars, exit_status, interrupted, submitted, started,
                 lateStarts, inFlightAtInt, batchAtInt, phaseAtInt, latest,
                 flushAtInt>>

\* ------------------------------------------------------------- flush_batch
\* Entered with pc = "flush"; returns to ret.
\* if not batch_results: return;  otherwise df is merged and sorted
FlushMerge ==
  /\ pc = "flush"
  /\ IF batch_results = <<>>
     THEN /\ pc' = ret
          /\ df' = df
     ELSE /\ df' = merge(df, batch_results)
          /\ pc' = "to_csv"
  /\ UNCHANGED <<config, aux, files, batch_results, ret, phase, poolvars, i,
                 seqvars, exit_status, interrupted, hist>>

\* df.to_csv(TSV_FILE, sep="\t", index=False)
ToCsv ==
  /\ pc = "to_csv"
  /\ tsv' = File(df)
  /\ pc' = "to_pickle"
  /\ UNCHANGED <<config, aux, pkl, df, batch_results, ret, phase, poolvars, i,
                 seqvars, exit_status, interrupted, hist>>

\* df.to_pickle(PKL_FILE)
ToPickle ==
  /\ pc = "to_pickle"
  /\ pkl' = File(df)
  /\ pc' = "clear"
  /\ UNCHANGED <<config, aux, tsv, df, batch_results, ret, phase, poolvars, i,
                 seqvars, exit_status, interrupted, hist>>

\* Mutant: the batch is kept after the writes
ClearBatch_keep ==
  /\ pc = "clear"
  /\ pc' = ret
  /\ UNCHANGED <<config, aux, files, df, batch_results, ret, phase, poolvars,
                 i, seqvars, exit_status, interrupted, hist>>

\* batch_results.clear()
ClearBatch ==
  /\ pc = "clear"
  /\ batch_results' = <<>>
  /\ pc' = ret
  /\ UNCHANGED <<config, aux, files, df, ret, phase, poolvars, i, seqvars,
                 exit_status, interrupted, hist>>

\* ------------------------------------------------- pooled: the primary pass
\* all_cids, scraped, to_scrape; batch_results = []
ResumeCompute ==
  /\ pc = "resume"
  /\ all_cids' = generate_ids(num_compounds)
  /\ to_scrape' = ToScrape(all_cids', df)
  /\ batch_results' = <<>>
  /\ pc' = "submit"
  /\ UNCHANGED <<config, aux, files, df, ret, phase, futures, i, seqvars,
                 exit_status, interrupted, hist>>

\* max_workers of the executor of the pass
PoolSize(ph) == IF ph = "primary" THEN MAX_WORKERS ELSE MAX_WORKERS \div 2

\* futures = {executor.submit(scrape_compound, cid): cid for cid in to_scrape}
Submit ==
  /\ pc = "submit"
  /\ futures' = [k \in DOMAIN to_scrape |-> NewFetch(to_scrape[k])]
  /\ submitted' = [submitted EXCEPT ![phase] = @ \o to_scrape]
  /\ i' = 0
  /\ pc' = "collect"
  /\ UNCHANGED <<config, aux, files, df, batch_results, ret, phase, all_cids,
                 to_scrape, seqvars, exit_status, interrupted, loaded, started,
                 lateStarts, inFlightAtInt, batchAtInt, phaseAtInt, latest,
                 flushAtInt>>

Running == {k \in DOMAIN futures : futures[k].st = "running"}
Pending == {k \in DOMAIN futures : futures[k].st = "pending"}

\* A worker thread takes the oldest queued work item
WorkerStart(k) ==
  /\ policy = "pooled"
  /\ pc \notin {"exited", "crashed"}
  /\ k \in Pending
  /\ \A j \in Pending : k <= j
  /\ Cardinality(Running) < PoolSize(phase)
  /\ futures' = [futures EXCEPT ![k].st = "running"]
  /\ started' = started \cup {<<phase, futures[k].cid>>}
  /\ lateStarts' = IF interrupted THEN lateStarts \cup {futures[k].cid}
                   ELSE lateStarts
  /\ UNCHANGED <<config, aux, files, df, batch_results, pc, ret, phase, all_cids,
                 to_scrape, i, seqvars, exit_status, interrupted, loaded,
                 submitted, inFlightAtInt, batchAtInt, phaseAtInt, latest,
                 flushAtInt>>

\* A worker thread runs one attempt of its call
WorkerAttempt(k, outcome) ==
  /\ policy = "pooled"
  /\ pc \notin {"exited", "crashed"}
  /\ k \in Running
  /\ futures' = [futures EXCEPT ![k] = scrape_attempt(@, outcome)]
  /\ latest' = IF futures'[k].st = "done"
               THEN Latest(latest, futures'[k].res[1]) ELSE latest
  /\ UNCHANGED <<config, aux, files, df, batch_results, pc, ret, phase, all_cids,
                 to_scrape, i, seqvars, exit_status, interrupted, loaded,
                 submitted, started, lateStarts, inFlightAtInt, batchAtInt,
                 phaseAtInt, flushAtInt>>

\* Mutant: the result() of a call that failed raises in the main thread
Collect_raise(k) ==
  /\ pc = "collect"
  /\ k \in DOMAIN futures
  /\ futures[k].st = "done"
  /\ i' = i + 1
  /\ futures' = [futures EXCEPT ![k].st = "yielded"]
  /\ IF futures[k].res[1].error # Null
     THEN /\ pc' = "exited" /\ exit_status' = <<1>>
          /\ UNCHANGED <<batch_results, ret>>
     ELSE /\ batch_results' =
               Append(batch_results, Restamp(futures[k].res[1], to_scrape[k]))
          /\ exit_status' = exit_status
          /\ IF i' % CHECKPOINT_EVERY = 0
             THEN pc' = "flush" /\ ret' = "collect"
             ELSE pc' = "collect" /\ ret' = ret
  /\ UNCHANGED <<config, aux, files, df, phase, all_cids, to_scrape, seqvars,
                 interrupted, hist>>

\* One iteration of `for i, f in enumerate(as_completed(futures), 1)`
Collect(k) ==
  /\ pc = "collect"
  /\ k \in DOMAIN futures
  /\ futures[k].st = "done"
  /\ i' = i + 1
  /\ futures' = [futures EXCEPT ![k].st = "yielded"]
  /\ batch_results' =
       Append(batch_results, Restamp(futures[k].res[1], to_scrape[k]))
  /\ IF i' % CHECKPOINT_EVERY = 0
     THEN pc' = "flush" /\ ret' = "collect"
     ELSE pc' = "collect" /\ ret' = ret
  /\ UNCHANGED <<config, aux, files, df, phase, all_cids, to_scrape, seqvars,
                 exit_status, interrupted, hist>>

\* Mutant: the flush_batch() after the loop is left out
EndPass_noflush ==
  /\ pc = "collect"
  /\ \A k \in DOMAIN futures : futures[k].st = "yielded"
  /\ pc' = IF phase = "primary" THEN "retry_select" ELSE "final_save"
  /\ UNCHANGED <<config, aux, files, df, batch_results, ret, phase, poolvars, i,
                 seqvars, exit_status, interrupted, hist>>

\* as_completed is exhausted: leave the with block, then flush_batch()
EndPass ==
  /\ pc = "collect"
  /\ \A k \in DOMAIN futures : futures[k].st = "yielded"
  /\ pc' = "flush"
  /\ ret' = IF phase = "primary" THEN "retry_select" ELSE "final_save"
  /\ UNCHANGED <<config, aux, files, df, batch_results, phase, poolvars, i,
                 seqvars, exit_status, interrupted, hist>>

\* ------------------------------------------- pooled: the final retry pass
\* failed_df = df[df["error"].notna()]; if not failed_df.empty: ...
RetrySelect ==
  /\ pc = "retry_select"
  /\ IF FailedIds(df) = <<>>
     THEN /\ pc' = "final_save"
          /\ UNCHANGED <<batch_results, to_scrape, phase>>
     ELSE /\ batch_results' = <<>>
          /\ to_scrape' = FailedIds(df)
          /\ phase' = "retry"
          /\ pc' = "submit"
  /\ UNCHANGED <<config, aux, files, df, ret, all_cids, futures, i, seqvars,
                 exit_status, interrupted, hist>>

\* FINAL SORT AND SAVE, then the script ends
FinalSave ==
  /\ pc = "final_save"
  /\ df' = sort_values(df)
  /\ tsv' = File(df')
  /\ pkl' = File(df')
  /\ pc' = "exited"
  /\ exit_status' = <<0>>
  /\ UNCHANGED <<config, aux, batch_results, ret, phase, poolvars, i, seqvars,
                 interrupted, hist>>


\* ------------------------------------------- sequential: the per-prefix scan
\* for prefix in prefixes: i = 0; consecutive_fails = 0
PrefixStart ==
  /\ pc = "prefix"
  /\ IF pidx > Len(prefixes)
     THEN /\ pc' = "final_save"
          /\ UNCHANGED <<i, consecutive_fails>>
     ELSE /\ i' = 0
          /\ consecutive_fails' = 0
          /\ pc' = "scan"
  /\ UNCHANGED <<config, aux, files, df, batch_results, ret, phase, poolvars,
                 pidx, cur, exit_status, interrupted, hist>>

\* if args.num_compounds and i > args.num_compounds: break
CapReached(num, n) == num # None /\ num # 0 /\ n > num

\* Mutant: the scan stops one failure later
TooManyFails_late(cf) == cf > MAX_CONSECUTIVE_FAILS

\* if consecutive_fails >= MAX_CONSECUTIVE_FAILS: break
TooManyFails(cf) == cf >= MAX_CONSECUTIVE_FAILS

\* Top of `while True`: the next Identifier, the two breaks, else the call of
\* scrape_compound begins.  A break is followed by flush_batch().
Scan ==
  /\ pc = "scan"
  /\ i' = i + 1
  /\ IF CapReached(num_compounds, i') \/ TooManyFails(consecutive_fails)
     THEN /\ pc' = "flush"
          /\ ret' = "next_prefix"
          /\ UNCHANGED <<cur, started>>
     ELSE /\ i <= EndIndex
          /\ cur' = <<[NewFetch(<<prefixes[pidx], i>>) EXCEPT !.st = "running"]>>
          /\ started' = started \cup {<<phase, <<prefixes[pidx], i>> >>}
          /\ pc' = "fetch"
          /\ ret' = ret
  /\ UNCHANGED <<config, aux, files, df, batch_results, phase, poolvars, pidx,
                 consecutive_fails, exit_status, interrupted, loaded,
                 submitted, lateStarts, inFlightAtInt, batchAtInt, phaseAtInt,
                 latest, flushAtInt>>

\* One attempt of the call running on the main thread
SeqAttempt(outcome) ==
  /\ pc = "fetch"
  /\ cur' = <<scrape_attempt(cur[1], outcome)>>
  /\ IF cur'[1].st = "done"
     THEN pc' = "record" /\ latest' = Latest(latest, cur'[1].res[1])
     ELSE pc' = "fetch" /\ latest' = latest
  /\ UNCHANGED <<config, aux, files, df, batch_results, ret, phase, poolvars, i,
                 pidx, consecutive_fails, exit_status, interrupted, loaded,
                 submitted, started, lateStarts, inFlightAtInt, batchAtInt,
                 phaseAtInt, flushAtInt>>

\* The rest of the loop body: restamp, append, count, periodic flush
Record ==
  /\ pc = "record"
  /\ LET result == Restamp(cur[1].res[1], cur[1].cid)
     IN  /\ batch_results' = Append(batch_results, result)
         /\ consecutive_fails' =
              IF result.error # Null THEN consecutive_fails + 1 ELSE 0
  /\ IF Len(batch_results') % CHECKPOINT_EVERY = 0
     THEN pc' = "flush" /\ ret' = "scan"
     ELSE pc' = "scan" /\ ret' = ret
  /\ cur' = <<>>
  /\ UNCHANGED <<config, aux, files, df, phase, poolvars, i, pidx, exit_status,
                 interrupted, hist>>

\* The flush after a break is done: the for loop takes the next prefix
NextPrefix ==
  /\ pc = "next_prefix"
  /\ pidx' = pidx + 1
  /\ pc' = "prefix"
  /\ UNCHANGED <<config, aux, files, df, batch_results, ret, phase, poolvars, i,
                 consecutive_fails, cur, exit_status, interrupted, hist>>

\* ---------------------------------------------------------------- interrupt
FlushPcs == {"flush", "to_csv", "to_pickle", "clear"}

\* Main-thread positions inside `with ThreadPoolExecutor(...)`
InWith == pc \in {"submit", "collect"} \/ (pc \in FlushPcs /\ ret = "collect")

\* Main-thread positions inside `try:`
InTry ==
  \/ policy = "pooled" /\ phase = "primary"
       /\ (InWith \/ (pc \in FlushPcs /\ ret = "retry_select"))
  \/ policy = "sequential"
       /\ \/ pc \in {"prefix", "scan", "fetch", "record", "next_prefix"}
          \/ (pc \in FlushPcs /\ ret \in {"scan", "next_prefix"})

\* Positions of the final retry pass, which no try encloses
InRetryPass ==
  policy = "pooled" /\ phase = "retry"
    /\ (InWith \/ (pc \in FlushPcs /\ ret = "final_save"))

\* KeyboardInterrupt is raised in the main thread.  Inside a with block the
\* executor's __exit__ runs first; an exception no handler catches ends the
\* process with a non-zero status.
Interrupt ==
  /\ ~interrupted
  /\ InTry \/ InRetryPass
  /\ interrupted' = TRUE
  /\ batchAtInt' = batch_results
  /\ phaseAtInt' = phase
  /\ inFlightAtInt' = {futures[k].cid : k \in Running}
  /\ flushAtInt' = IF pc \in {"to_csv", "to_pickle", "clear"} THEN <<df>>
                   ELSE <<>>
  /\ IF policy = "pooled" /\ InWith
     THEN pc' = "shutdown" /\ exit_status' = exit_status
     ELSE IF InTry
     THEN pc' = "except" /\ exit_status' = exit_status
     ELSE pc' = "exited" /\ exit_status' \in {<<1>>, <<130>>}
  /\ cur' = <<>>
  /\ UNCHANGED <<config, aux, files, df, batch_results, ret, phase, poolvars, i,
                 pidx, consecutive_fails, loaded, submitted, started,
                 lateStarts, latest>>

\* ThreadPoolExecutor.__exit__: shutdown(wait=True) returns once the workers
\* have run every submitted call; then the exception propagates: a
\* KeyboardInterrupt to the handler of the try, if there is one, any other
\* exception to the top level
Shutdown ==
  /\ pc = "shutdown"
  /\ Pending = {} /\ Running = {}
  /\ IF write_failed
     THEN pc' = "exited" /\ exit_status' = <<1>>
     ELSE IF phase = "primary"
     THEN pc' = "except" /\ exit_status' = exit_status
     ELSE pc' = "exited" /\ exit_status' \in {<<1>>, <<130>>}
  /\ UNCHANGED <<config, aux, files, df, batch_results, ret, phase, poolvars, i,
                 seqvars, interrupted, hist>>

\* except KeyboardInterrupt: flush_batch()
Except ==
  /\ pc = "except"
  /\ pc' = "flush"
  /\ ret' = "sys_exit"
  /\ UNCHANGED <<config, aux, files, df, batch_results, phase, poolvars, i,
                 seqvars, exit_status, interrupted, hist>>

\* sys.exit(1)
SysExit ==
  /\ pc = "sys_exit"
  /\ pc' = "exited"
  /\ exit_status' = <<1>>
  /\ UNCHANGED <<config, aux, files, df, batch_results, ret, phase, poolvars, i,
                 seqvars, interrupted, hist>>

\* ------------------------------------------------------- failures of a write
\* Inside the with block the executor's __exit__ runs before an exception
\* leaves it
Unwinds == policy = "pooled" /\ InWith

\* Mutant: flush_batch catches the exception and carries on
WriteFail_swallowed ==
  /\ pc \in {"to_csv", "to_pickle"}
  /\ write_failed' = TRUE
  /\ IF pc = "to_csv"
     THEN tsv' \in {tsv, TornFile} /\ pkl' = pkl
     ELSE pkl' \in {pkl, TornFile} /\ tsv' = tsv
  /\ pc' = "clear"
  /\ UNCHANGED <<config, df, batch_results, ret, phase, poolvars, i, seqvars,
                 exit_status, interrupted, hist, pklAtCrash, enc>>

\* df.to_csv or df.to_pickle raises (OSError: disk full, no permission).  The
\* file is as it was, or holds the part written.  No handler catches it, in
\* the try or in the KeyboardInterrupt handler: the process ends with status 1.
WriteFail ==
  /\ pc \in {"to_csv", "to_pickle"}
  /\ write_failed' = TRUE
  /\ IF pc = "to_csv"
     THEN tsv' \in {tsv, TornFile} /\ pkl' = pkl
     ELSE pkl' \in {pkl, TornFile} /\ tsv' = tsv
  /\ IF Unwinds
     THEN pc' = "shutdown" /\ exit_status' = exit_status
     ELSE pc' = "exited" /\ exit_status' = <<1>>
  /\ UNCHANGED <<config, df, batch_results, ret, phase, poolvars, i, seqvars,
                 interrupted, hist, pklAtCrash, enc>>

\* The process is killed (SIGKILL, power loss) inside flush_batch after the
\* merge: before a write, or inside to_csv or to_pickle, whose file then holds
\* the part written.  The worker threads end with it.
Crash ==
  /\ pc \in {"to_csv", "to_pickle", "clear"}
  /\ pklAtCrash' = pkl
  /\ \/ UNCHANGED files
     \/ pc = "to_csv" /\ tsv' = TornFile /\ pkl' = pkl
     \/ pc = "to_pickle" /\ pkl' = TornFile /\ tsv' = tsv
  /\ pc' = "crashed"
  /\ UNCHANGED <<config, df, batch_results, ret, phase, poolvars, i, seqvars,
                 exit_status, interrupted, hist, write_failed, enc>>

\* ------------------------------------------------------------ specification
Next ==
  \/ Load
  \/ ResumeCompute
  \/ Submit
  \/ \E k \in DOMAIN futures : WorkerStart(k)
  \/ \E k \in DOMAIN futures, o \in Outcomes : WorkerAttempt(k, o)
  \/ \E k \in DOMAIN futures : Collect(k)
  \/ EndPass
  \/ FlushMerge
  \/ ToCsv
  \/ ToPickle
  \/ ClearBatch
  \/ RetrySelect
  \/ FinalSave
  \/ PrefixStart
  \/ Scan
  \/ \E o \in Outcomes : SeqAttempt(o)
  \/ Record
  \/ NextPrefix
  \/ Interrupt
  \/ Shutdown
  \/ Except
  \/ SysExit
  \/ WriteFail
  \/ Crash

Spec == Init /\ [][Next]_vars

\* A run of the pooled script over the whole range (no --num_compounds) that
\* is neither interrupted nor killed and whose writes succeed.  The scheduler
\* runs every thread that can take a step, and a step ends: a request returns
\* or times out (timeout=15), a backoff sleep is finite.
PooledInit == Init /\ policy = "pooled" /\ num_compounds = None

PooledNext ==
  \/ Load
  \/ ResumeCompute
  \/ Submit
  \/ \E k \in DOMAIN futures : WorkerStart(k)
  \/ \E k \in DOMAIN futures, o \in Outcomes : WorkerAttempt(k, o)
  \/ \E k \in DOMAIN futures : Collect(k)
  \/ EndPass
  \/ FlushMerge
  \/ ToCsv
  \/ ToPickle
  \/ ClearBatch
  \/ RetrySelect
  \/ FinalSave

PooledSpec == PooledInit /\ [][PooledNext]_vars /\ WF_vars(PooledNext)

\* ------------------------------------------------- the formatters on their own
\* One behaviour formats one Identifier: enc = <<[scheme, prefix, n, token]>>,
\* token empty until the formatter has run.  The indexes are those the loops
\* can reach: start..end in generate_ids; in the curated scan, which has no
\* end, a low range and the indexes around the largest five-digit number.
HexIndexes == (0..MaxHexIndex) \cup ((16^5 - 2)..(16^5 + 1))

EncInputs ==
  {[scheme |-> "base36", prefix |-> "D", n |-> n, token |-> <<>>] :
     n \in start..end}
  \cup
  {[scheme |-> "hex", prefix |-> prefixes[k], n |-> n, token |-> <<>>] :
     k \in DOMAIN prefixes, n \in HexIndexes}

EncInit ==
  /\ enc \in {<<e>> : e \in EncInputs}
  /\ policy = IF enc[1].scheme = "base36" THEN "pooled" ELSE "sequential"
  /\ num_compounds = None
  /\ pkl = NoFile
  /\ tsv = NoFile
  /\ pc = "enumerate"
  /\ Fresh

runvars ==
  <<config, files, df, batch_results, pc, ret, phase, poolvars, i, seqvars,
    exit_status, interrupted, hist, write_failed, pklAtCrash>>

\* yield f"D{int_to_base36(i).zfill(5)}"
EncodeBase36 ==
  /\ pc = "enumerate"
  /\ enc[1].scheme = "base36" /\ enc[1].token = <<>>
  /\ enc' = <<[enc[1] EXCEPT !.token = DlipId(enc[1].n)]>>
  /\ UNCHANGED runvars

\* cid = f"{prefix}{int_to_hex(i)}"
EncodeHex ==
  /\ pc = "enumerate"
  /\ enc[1].scheme = "hex" /\ enc[1].token = <<>>
  /\ enc' = <<[enc[1] EXCEPT !.token = CuratedId(enc[1].prefix, enc[1].n)]>>
  /\ UNCHANGED runvars

EncNext == EncodeBase36 \/ EncodeHex

EncSpec == EncInit /\ [][EncNext]_vars


\* =================================================================== claims
Count(seq, x) == Cardinality({k \in DOMAIN seq : seq[k] = x})

Rows(f) == Range(f.rows)

\* The Identifiers the Enumerator yields in this run.  The sequential script
\* counts them inline: index 0 .. num - 1 of every prefix when a cap is given.
Enumerated ==
  IF policy = "pooled" THEN Range(generate_ids(num_compounds))
  ELSE {<<prefixes[k], n>> : k \in DOMAIN prefixes, n \in 0..(num_compounds - 1)}

EnumerationIsFinite == policy = "pooled" \/ num_compounds >= 1

\* Identifiers with a row without error in the Dataset d
DoneIn(d) == {r.id : r \in {x \in Range(d) : x.error = Null}}

\* Resume Set: enumerated Identifiers whose loaded entry is absent or failed
ResumeSet == Enumerated \ DoneIn(loaded)

\* ---- C1: re-running on a Dataset in which every enumerated Identifier has a
\* Record with error == null gives an empty Resume Set and no fetch at all in
\* the whole run, under the pooled and under the sequential policy.
C1_NoFetchWhenAllSucceeded ==
  (pc # "load" /\ EnumerationIsFinite /\ Enumerated \subseteq DoneIn(loaded))
    => (started = {} /\ (pc \notin {"resume"} => to_scrape = <<>>))

\* ---- C2: the pooled primary pass submits exactly the Resume Set, every
\* Identifier of it once, and no Identifier whose loaded entry has no error.
PrimarySubmitted ==
  policy = "pooled" /\ ~interrupted
    /\ (phase = "retry" \/ pc \notin {"load", "resume", "submit"})

C2_PrimarySubmitsResumeSet ==
  policy = "pooled" =>
    /\ \A c \in Universe(policy) \cup Range(submitted.primary) :
         Count(submitted.primary, c) <= IF c \in ResumeSet THEN 1 ELSE 0
    /\ PrimarySubmitted =>
         \A c \in ResumeSet : Count(submitted.primary, c) = 1

\* Witness: submitted while the loaded Dataset has a success, a failure and a
\* gap among the enumerated Identifiers
C2_Witness ==
  /\ policy = "pooled" /\ pc = "collect" /\ phase = "primary"
  /\ Len(submitted.primary) = 2
  /\ \E r \in Range(loaded) : r.error = Null /\ r.id \in Enumerated
  /\ \E r \in Range(loaded) : r.error # Null /\ r.id \in Enumerated
  /\ Enumerated \ Ids(loaded) # {}

\* ---- C3: merge is an upsert by Identifier.  For a batch with pairwise
\* distinct Identifiers and a Dataset with unique Identifiers the new Dataset
\* has one row per Identifier, its Identifiers are the union, every batch
\* Identifier maps to the batch's Record (absent fields null), and every other
\* row is unchanged.
UniqueIds(d) == \A j, k \in DOMAIN d : d[j].id = d[k].id => j = k

UpsertPost(d, b, d2) ==
  /\ UniqueIds(d2)
  /\ Ids(d2) = Ids(d) \cup Ids(b)
  /\ \A k \in DOMAIN b : \E j \in DOMAIN d2 :
       /\ d2[j].id = b[k].id
       /\ d2[j].error = b[k].error
       /\ d2[j].val = IF "val" \in DOMAIN b[k] THEN b[k].val ELSE Null
  /\ \A j \in DOMAIN d : d[j].id \notin Ids(b) => \E m \in DOMAIN d2 : d2[m] = d[j]

C3_MergeIsUpsert ==
  [][(pc = "flush" /\ batch_results # <<>> /\ pc' = "to_csv"
        /\ UniqueIds(df) /\ UniqueIds(batch_results))
       => UpsertPost(df, batch_results, df')]_vars

\* Witness: a merge has replaced a loaded success (fields set) by a failure
\* that came in a batch of two
C3_Witness ==
  /\ pc = "to_csv"
  /\ Len(batch_results) = 2
  /\ \E r \in Range(loaded) : \E x \in Range(df) :
       /\ r.val = "old" /\ x.id = r.id /\ x.error = "err" /\ x.val = Null
       /\ \E k \in DOMAIN batch_results : batch_results[k].id = r.id
  /\ Len(df) = Len(loaded) + 1

\* ---- C4: a Record returned after MAX_RETRIES failed attempts has an error,
\* the Identifier of the call and every other field null, whatever a failed
\* attempt had extracted; a returned Record has error == null iff an attempt
\* succeeded.
Calls == Range(futures) \cup Range(cur)
Returned == {f \in Calls : f.st \in {"done", "yielded"}}

C4_FailureRecordIsBare ==
  \A f \in Returned :
    LET r == f.res[1]
    IN  /\ r.id = f.cid
        /\ (r.error = Null) <=> f.ok
        /\ ~f.ok =>
             /\ f.attempt = MAX_RETRIES
             /\ r.error # Null
             /\ DictToRow(r).val = Null

\* Witness: a call has returned after MAX_RETRIES failed attempts, and its
\* Record has reached the Dataset
C4_Witness ==
  \E f \in Returned :
    /\ ~f.ok /\ f.attempt = MAX_RETRIES
    /\ Row(f.cid, Null, "err") \in Range(df)

\* ---- C5: a call makes between 1 and MAX_RETRIES attempts, stops at the
\* first success, waits BACKOFF * k after the k-th failed attempt when
\* k < MAX_RETRIES, and does not wait after the last failed attempt.
Min(a, b) == IF a < b THEN a ELSE b

C5_LinearBackoff ==
  \A f \in Calls :
    /\ f.tries <= MAX_RETRIES
    /\ f \in Returned => f.tries >= 1
    /\ f.ok => f \in Returned
    /\ f.tries = f.attempt + (IF f.ok THEN 1 ELSE 0)
    /\ f.st = "running" => f.attempt < MAX_RETRIES
    /\ Len(f.sleeps) = Min(f.attempt, MAX_RETRIES - 1)
    /\ \A k \in DOMAIN f.sleeps : f.sleeps[k] = BACKOFF * k

\* Witness: a call has succeeded at its last allowed attempt, after two waits
C5_Witness ==
  \E f \in Returned : f.ok /\ f.tries = MAX_RETRIES /\ Len(f.sleeps) = 2

\* ---- C6: a run that reaches DONE (no interrupt) ends with an empty batch and
\* with the Record of every completed call in the persisted Dataset, so that
\* every enumerated Identifier has a row, whatever the number of Records is
\* relative to CHECKPOINT_EVERY.
Done == pc = "exited" /\ exit_status = <<0>>

C6_FinalFlushNeverSkipped ==
  Done =>
    /\ batch_results = <<>>
    /\ latest \subseteq Rows(pkl)
    /\ latest \subseteq Rows(tsv)
    /\ policy = "pooled" => Range(all_cids) \subseteq Ids(pkl.rows)
    /\ \A s \in started : s[2] \in Ids(pkl.rows)

\* Witness: DONE after a primary pass of three Records and a retry pass of
\* one, neither a multiple of CHECKPOINT_EVERY
C6_Witness ==
  /\ Done
  /\ Len(submitted.primary) % CHECKPOINT_EVERY # 0
  /\ Len(submitted.retry) % CHECKPOINT_EVERY # 0
  /\ Len(submitted.retry) > 0

\* ---- C7: after the flushed primary pass, one more pass runs over exactly the
\* Identifiers of this run's Enumerator output whose persisted Record has an
\* error: each is fetched once more, and no Identifier outside the Enumerator
\* output and none without error is fetched in it.
FailedPersisted(f) == {r.id : r \in {x \in Rows(f) : x.error # Null}}

C7_RetryOnlyEnumeratedFailures ==
  policy = "pooled" =>
    /\ \A s \in started : s[1] = "retry" => s[2] \in Enumerated
    /\ \A c \in Range(submitted.retry) : Count(submitted.retry, c) = 1
    /\ (phase = "retry" /\ pc = "collect" /\ i = 0 /\ ~interrupted) =>
         Range(submitted.retry) = FailedPersisted(pkl) \cap Enumerated

\* ---- C8: an interrupt in a DISPATCHING or FLUSHING state of either pass
\* leads to a flush of the unflushed batch before the process halts, and to a
\* non-zero exit status; a run that completes exits with status 0.
C8_InterruptFlushesAndExitsNonZero ==
  (pc = "exited" /\ ~write_failed) =>
    IF interrupted
    THEN /\ exit_status # <<0>>
         /\ \A k \in DOMAIN batchAtInt : DictToRow(batchAtInt[k]) \in Rows(pkl)
    ELSE exit_status = <<0>>

\* ---- C9: on an interrupt no completed work is dropped: the Record of every
\* call that had finished in a worker before control returned to the caller is
\* in the persisted Dataset at exit, collected by the loop or not.
C9_InterruptKeepsCompletedRecords ==
  (pc = "exited" /\ interrupted) =>
    \A f \in Returned : DictToRow(f.res[1]) \in Rows(pkl)

\* ---- C10: after the interrupt no call starts for an Identifier that was not
\* in flight at that moment.
C10_NoStartAfterInterrupt ==
  interrupted => lateStarts = {}

\* ---- C11: persist is crash-safe.  When the process is killed at any point
\* of the writes of flush_batch, between them or inside one, the load() of the
\* next run returns the complete Dataset persisted before, or the complete new
\* one, never a corrupted or partial one.
\* pd.read_pickle raises on a pickle whose write did not finish
LoadFails(f) == f.exists /\ f.torn

C11_CrashSafePersist ==
  pc = "crashed" =>
    /\ ~LoadFails(pkl)
    /\ read_pickle(pkl) \in {read_pickle(pklAtCrash), df}

\* ---- C12: every persisted Dataset, after a periodic flush, a final flush or
\* an interrupt flush, is sorted ascending by Identifier, in whatever order
\* the workers completed the fetches.
IsSorted(d) == \A j, k \in DOMAIN d : j < k => ~IdLess(d[k].id, d[j].id)

C12_PersistedIsSorted == IsSorted(tsv.rows) /\ IsSorted(pkl.rows)

\* Witness: a flush has written a batch that the pool completed in descending
\* order of Identifier
C12_Witness ==
  /\ policy = "pooled" /\ pc = "clear"
  /\ Len(batch_results) = 2
  /\ IdLess(batch_results[2].id, batch_results[1].id)
  /\ pkl = File(df) /\ tsv = File(df)
  /\ Ids(batch_results) \subseteq Ids(pkl.rows)

\* ---- C13: the sequential scan of a namespace halts after exactly
\* MAX_CONSECUTIVE_FAILS consecutive failing fetches: no Identifier of the
\* namespace is fetched after that many failures in a row, the scan does not
\* halt for failures on fewer, whatever happened earlier in the namespace, and
\* a success resets the count.
\* The fetch of index n of namespace p has failed in this run
FetchFailed(p, n) == \E r \in latest : r.id = <<p, n>> /\ r.error # Null

\* Number of failed fetches in a row that end at index n - 1 of namespace p
RECURSIVE TrailingFails(_, _)
TrailingFails(p, n) ==
  IF n = 0 \/ ~FetchFailed(p, n - 1) THEN 0 ELSE 1 + TrailingFails(p, n - 1)

C13_HaltsAfterConsecutiveFails ==
  (policy = "sequential" /\ pidx <= Len(prefixes)) =>
    LET p == prefixes[pidx]
    IN  /\ pc = "scan" => consecutive_fails = TrailingFails(p, i)
        /\ pc = "fetch" => TrailingFails(p, i - 1) < MAX_CONSECUTIVE_FAILS
        /\ (pc = "flush" /\ ret = "next_prefix"
              /\ ~CapReached(num_compounds, i)) =>
             TrailingFails(p, i - 1) = MAX_CONSECUTIVE_FAILS

\* Witness: the scan of a namespace has halted for failures after a success
\* followed by MAX_CONSECUTIVE_FAILS failures
C13_Witness ==
  /\ policy = "sequential" /\ pidx <= Len(prefixes)
  /\ pc = "flush" /\ ret = "next_prefix"
  /\ ~CapReached(num_compounds, i)
  /\ i = MAX_CONSECUTIVE_FAILS + 2
  /\ \E r \in latest : r.id = <<prefixes[pidx], 0>> /\ r.error = Null
  /\ TrailingFails(prefixes[pidx], i - 1) = MAX_CONSECUTIVE_FAILS

\* ---- C14: for every index n the Enumerator produces under a scheme (base 16
\* or base 36, width 5, one-letter prefix), decoding the digits of the token in
\* that base gives n back, the digit part has exactly 5 characters, and index 0
\* is encoded as five zero digits.
Base(scheme) == IF scheme = "base36" THEN 36 ELSE 16

Encoded == {e \in Range(enc) : e.token # <<>>}

C14_EncodeRoundTrip ==
  \A e \in Encoded :
    LET digits == Tail(e.token)
    IN  /\ Head(e.token) = e.prefix
        /\ int(digits, Base(e.scheme)) = e.n
        /\ Len(digits) = 5
        /\ e.n = 0 => digits = <<"0", "0", "0", "0", "0">>

\* ---- C15: with a maximum count N >= 0 (0 included) the Enumerator of every
\* script produces at most N Identifiers, in strictly ascending order from
\* the start index of the scheme; without a cap the bounded scheme produces
\* exactly the range start..end.
\* Indexes of namespace p whose Identifier the scan has handed to the fetcher
ScannedIn(p) == {s[2][2] : s \in {x \in started : x[2][1] = p}}

C15_EnumeratorRespectsCap ==
  /\ (policy = "pooled" /\ pc \notin {"load", "resume"}) =>
       /\ \A k \in DOMAIN all_cids : all_cids[k] = <<"D", k - 1>>
       /\ num_compounds # None => Len(all_cids) <= num_compounds
       /\ num_compounds = None => Len(all_cids) = EndIndex + 1
  /\ policy = "sequential" =>
       \A k \in DOMAIN prefixes :
         LET S == ScannedIn(prefixes[k])
         IN  /\ S = 0..(Cardinality(S) - 1)
             /\ num_compounds # None => Cardinality(S) <= num_compounds

BetweenItems ==
  \/ policy = "pooled" /\ pc = "collect"
  \/ policy = "sequential" /\ pc = "scan"

\* Rows of the Records the pass has processed so far
ProcessedRows ==
  IF policy = "pooled"
  THEN {DictToRow(Restamp(futures[k].res[1], to_scrape[k])) :
          k \in {j \in DOMAIN futures : futures[j].st = "yielded"}}
  ELSE {r \in latest : r.id[1] = prefixes[pidx]}

C17_PeriodicFlushDiscipline ==
  BetweenItems =>
    /\ Len(batch_results) < CHECKPOINT_EVERY
    /\ Len(batch_results) = i % CHECKPOINT_EVERY
    /\ Cardinality(ProcessedRows) = i
    /\ i % CHECKPOINT_EVERY = 0 =>
         /\ batch_results = <<>>
         /\ ProcessedRows \subseteq Rows(pkl)
         /\ ProcessedRows \subseteq Rows(tsv)
         /\ ProcessedRows \subseteq Range(df)

\* Witness: the periodic flush after the CHECKPOINT_EVERY-th Record of a pass
\* that is not over has returned
C17_Witness ==
  /\ BetweenItems
  /\ i = CHECKPOINT_EVERY
  /\ batch_results = <<>>
  /\ Cardinality(ProcessedRows) = CHECKPOINT_EVERY
  /\ ProcessedRows \subseteq Rows(pkl)
  /\ policy = "pooled" => \E k \in DOMAIN futures : futures[k].st # "yielded"

\* ---- C18: per-item errors never abort the batch.  Without interrupt and
\* write failure, whichever fetches fail, every Identifier submitted to a
\* pooled pass eventually yields exactly one Record, carrying that Identifier
\* and, when the fetch failed, the failure in its error field; and the pass
\* ends after all of them have yielded.
Yielded == {k \in DOMAIN futures : futures[k].st = "yielded"}

\* The pass has left its loop: as_completed is exhausted
PassOver ==
  /\ pc = "flush"
  /\ ret = (IF phase = "primary" THEN "retry_select" ELSE "final_save")
  /\ Yielded = DOMAIN futures
  /\ i = Len(to_scrape)

\* What has been yielded so far: one Record per yielded call, in the batch
\* until flush_batch clears it and merged as one row after that, with the
\* Identifier submitted and the outcome of the call
YieldedOnce ==
  (policy = "pooled" /\ pc \in {"collect"} \cup FlushPcs /\ ret # "sys_exit") =>
    /\ i = Cardinality(Yielded)
    /\ Len(batch_results) <= i
    /\ \A k \in Yielded :
         LET r == Restamp(futures[k].res[1], to_scrape[k])
         IN  /\ r.id = to_scrape[k]
             /\ (r.error # Null) <=> ~futures[k].ok
             /\ Count(batch_results, r) <= 1
             /\ Cardinality({j \in DOMAIN df : df[j].id = r.id}) <= 1
             /\ Count(batch_results, r) = 0 =>
                  \E j \in DOMAIN df : df[j] = DictToRow(r)

C18_ItemErrorsNeverAbort ==
  /\ []YieldedOnce
  /\ (pc = "collect") ~> PassOver

\* Witness: a primary pass of three Identifiers is over, one of its calls
\* failed and one succeeded
C18_Witness ==
  /\ PassOver /\ phase = "primary"
  /\ Len(futures) = 3
  /\ \E k \in DOMAIN futures : ~futures[k].ok
  /\ \E k \in DOMAIN futures : futures[k].ok

\* ---- C19 (pooled): success is permanent.  Once an Identifier has a Record
\* without error in the Dataset, loaded from the files of an earlier run or
\* merged in this one, no later step fetches it again, and no later merge
\* changes its Record or replaces it by an error Record.
C19_SuccessIsPermanent ==
  [][policy = "pooled" =>
       \A r \in Range(df) :
         r.error = Null =>
           /\ r \in Range(df')
           /\ \A s \in started' \ started : s[2] # r.id]_vars

\* Witness: a run has ended after a retry pass; the Dataset still has a
\* success loaded at start-up for an enumerated Identifier and a success of
\* the primary pass, next to a Record the retry pass has fetched again
C19_Witness ==
  /\ policy = "pooled" /\ Done
  /\ \E r \in Range(loaded) :
       r.error = Null /\ r.id \in Enumerated /\ r \in Rows(pkl)
  /\ \E c \in Range(submitted.primary) :
       c \notin Range(submitted.retry) /\ Row(c, "new", Null) \in Rows(pkl)
  /\ \E c \in Range(submitted.retry) : c \in Range(submitted.primary)

\* ---- C20: flushing is idempotent with respect to the batch.  When a
\* KeyboardInterrupt cuts flush_batch after its merge, before the batch is
\* cleared, and the handler calls flush_batch again, the persisted Dataset is
\* the one the flush would have written had it not been cut: no Identifier
\* twice, no Record lost.
\* The handler has run its flush_batch() after an interrupt inside a flush
HandlerReflushed ==
  /\ interrupted /\ flushAtInt # <<>>
  /\ ~write_failed
  /\ pc = "exited" /\ exit_status = <<1>> /\ ret = "sys_exit"

C20_FlushIsIdempotent ==
  HandlerReflushed =>
    /\ pkl = File(flushAtInt[1])
    /\ tsv = File(flushAtInt[1])
    /\ df = flushAtInt[1]
    /\ UniqueIds(pkl.rows)
    /\ \A k \in DOMAIN batchAtInt : DictToRow(batchAtInt[k]) \in Rows(pkl)

\* Witness: the interrupt came after the merge of a flush of two Records, one
\* of which replaced a loaded row, and the handler has flushed the same batch
\* again
C20_Witness ==
  /\ HandlerReflushed
  /\ Len(batchAtInt) = 2
  /\ tsv = pkl
  /\ \E k \in DOMAIN batchAtInt : batchAtInt[k].id \in Ids(loaded)
  /\ Len(pkl.rows) >= 3

\* ---- C21: the tabular file and the binary snapshot are equivalent.  In
\* every state in which no persist step is in progress, the state in which
\* the process has halted after an interrupt or after a failed write
\* included, both files hold the same set of Records, so that load() resumes
\* from what the tabular file shows.
\* df.to_csv: a row becomes a line of cells, a missing value an empty cell
to_csv(d) ==
  [k \in DOMAIN d |->
     [id |-> d[k].id,
      val |-> IF d[k].val = Null THEN "" ELSE d[k].val,
      error |-> IF d[k].error = Null THEN "" ELSE d[k].error]]

\* The Records a reader of the tabular file gets: an empty cell is a missing
\* value (pd.read_csv)
read_csv(t) ==
  {Row(t[k].id,
       IF t[k].val = "" THEN Null ELSE t[k].val,
       IF t[k].error = "" THEN Null ELSE t[k].error) : k \in DOMAIN t}

\* The main thread is outside the writes of a flush: the run goes on
\* undisturbed, or the process has halted by itself
NoPersistInProgress ==
  \/ pc = "exited"
  \/ ~interrupted /\ ~write_failed
       /\ pc \notin {"to_csv", "to_pickle", "crashed"}

C21_FilesAreEquivalent ==
  NoPersistInProgress =>
    /\ tsv.exists = pkl.exists
    /\ ~tsv.torn /\ ~pkl.torn
    /\ read_csv(to_csv(tsv.rows)) = Range(read_pickle(pkl))

====
